---------------------------- MODULE Spec2Model ----------------------------
(***************************************************************************)
(* Model of the deterministic client <-> job match score                   *)
(* (api/utils/matchScore.js, scoreJobForClient) of the Job-Search-Engine,  *)
(* and of the handler that filters, scores, sorts and limits the fetched   *)
(* jobs (api/controllers/jobController.js, searchJobs).                    *)
(*                                                                         *)
(* Strings are TLA+ strings; a character is a string of length 1.          *)
(* JavaScript numbers that are not integers (ratios, unrounded sub-scores) *)
(* are exact rationals [n |-> numerator, d |-> denominator > 0], kept in   *)
(* lowest terms.  On the inputs drawn below no unrounded value lies within *)
(* floating-point error of a rounding tie or of a threshold, so the exact  *)
(* value and the IEEE-754 double round and compare alike.                  *)
(***************************************************************************)
EXTENDS Integers, Sequences, FiniteSets, TLC

VARIABLES client, job, result, pc, clientProfile, filters, jobs, response

vars == <<client, job, result, pc, clientProfile, filters, jobs, response>>

----------------------------------------------------------------------------
(* Generic helpers for strings and sequences                               *)

Min(a, b) == IF a <= b THEN a ELSE b

Max(a, b) == IF a >= b THEN a ELSE b

CharAt(s, i) == SubSeq(s, i, i)

CharsOf(s) == {CharAt(s, i) : i \in 1..Len(s)}

\* String.prototype.includes
includes(s, sub) ==
  \E i \in 1..(Len(s) - Len(sub) + 1) : SubSeq(s, i, i + Len(sub) - 1) = sub

\* Array.prototype.includes
arrayIncludes(arr, x) == \E i \in 1..Len(arr) : arr[i] = x

\* .filter(Boolean) on an array of strings: drops the empty strings
FilterNonEmpty(arr) == SelectSeq(arr, LAMBDA x : x # "")

\* new Set(array) / Set.add in a loop: first occurrences, in insertion order
RECURSIVE Dedup(_)
Dedup(arr) ==
  IF arr = <<>> THEN <<>>
  ELSE LET rest == Dedup(SubSeq(arr, 1, Len(arr) - 1))
           last == arr[Len(arr)]
       IN  IF arrayIncludes(rest, last) THEN rest ELSE Append(rest, last)

\* Array.prototype.join
RECURSIVE join(_, _)
join(arr, sep) ==
  IF arr = <<>> THEN ""
  ELSE IF Len(arr) = 1 THEN arr[1]
  ELSE arr[1] \o sep \o join(Tail(arr), sep)

----------------------------------------------------------------------------
(* Exact rational arithmetic for the JavaScript number computations        *)

RECURSIVE GCD(_, _)
GCD(a, b) == IF b = 0 THEN a ELSE GCD(b, a % b)

Abs(x) == IF x < 0 THEN -x ELSE x

Frac(n, d) ==
  LET g == GCD(Abs(n), d) IN [n |-> n \div g, d |-> d \div g]

Int2R(k) == [n |-> k, d |-> 1]

RAdd(a, b) == Frac(a.n * b.d + b.n * a.d, a.d * b.d)

RMul(a, b) == Frac(a.n * b.n, a.d * b.d)

RLess(a, b) == a.n * b.d < b.n * a.d

RGeq(a, b) == ~RLess(a, b)

RMin(a, b) == IF RLess(b, a) THEN b ELSE a

RMax(a, b) == IF RLess(a, b) THEN b ELSE a

\* Math.round: the nearest integer, a tie going up
MathRound(a) == (2 * a.n + a.d) \div (2 * a.d)

\* variant of clamp that forgets the upper limit
clampLowerOnly(x, lo, hi) == RMax(Int2R(lo), x)

\* clamp(n, min, max) == Math.max(min, Math.min(max, n))
clamp(x, lo, hi) == RMax(Int2R(lo), RMin(Int2R(hi), x))

----------------------------------------------------------------------------
(* Text normaliser                                                         *)

STOP_WORDS ==
  { "the", "a", "an", "and", "or", "to", "for", "of", "in", "on", "with", "at",
    "from", "by", "as", "is", "are", "be", "this", "that", "we", "you", "your",
    "our", "they", "their", "will", "can", "may", "able", "about", "into" }

TITLE_SYNONYMS ==
  << <<"software engineer", "software developer", "swe", "developer">>,
     <<"frontend", "front-end", "ui", "react developer", "web developer">>,
     <<"backend", "back-end", "api", "node developer", "server developer">>,
     <<"fullstack", "full-stack", "mern">>,
     <<"devops", "site reliability", "sre", "platform engineer">>,
     <<"qa", "quality assurance", "test engineer", "automation engineer">> >>

UpperCaseLetters == "ABCDEFGHIJKLMNOPQRSTUVWXYZ"

LowerCaseLetters == "abcdefghijklmnopqrstuvwxyz"

\* the class [a-z0-9+.#/-] of the third replace, without the \s part
KeptChars == CharsOf(LowerCaseLetters \o "0123456789+.#/-")

\* the class \s, for the characters the model's strings use
WhiteSpace == {" ", "\n", "\t"}

\* the lower-case letter of each upper-case letter
LowerOf ==
  [c \in CharsOf(UpperCaseLetters) |->
     CharAt(LowerCaseLetters, CHOOSE i \in 1..26 : CharAt(UpperCaseLetters, i) = c)]

toLowerCaseChar(c) == IF c \in DOMAIN LowerOf THEN LowerOf[c] ELSE c

RECURSIVE toLowerCase(_)
toLowerCase(s) ==
  IF s = "" THEN "" ELSE toLowerCaseChar(CharAt(s, 1)) \o toLowerCase(Tail(s))

\* .replace(/[\u2019']/g, "'") then .replace(/[^a-z0-9+.#/\s-]/g, " "):
\* the apostrophe is not in the kept class, so it becomes a space as well
RECURSIVE replacePunctuation(_)
replacePunctuation(s) ==
  IF s = "" THEN ""
  ELSE LET c == CharAt(s, 1)
       IN  (IF c \in KeptChars \/ c \in WhiteSpace THEN c ELSE " ")
           \o replacePunctuation(Tail(s))

\* .replace(/\s+/g, " ")
RECURSIVE collapseWhiteSpace(_)
collapseWhiteSpace(s) ==
  IF s = "" THEN ""
  ELSE LET c == CharAt(s, 1)
       IN  IF c \in WhiteSpace
           THEN IF Len(s) >= 2 /\ CharAt(s, 2) \in WhiteSpace
                THEN collapseWhiteSpace(Tail(s))
                ELSE " " \o collapseWhiteSpace(Tail(s))
           ELSE c \o collapseWhiteSpace(Tail(s))

\* String.prototype.trim
RECURSIVE trim(_)
trim(s) ==
  IF s = "" THEN ""
  ELSE IF CharAt(s, 1) \in WhiteSpace THEN trim(Tail(s))
  ELSE IF CharAt(s, Len(s)) \in WhiteSpace THEN trim(SubSeq(s, 1, Len(s) - 1))
  ELSE s

normalizeText(s) ==
  trim(collapseWhiteSpace(replacePunctuation(toLowerCase(s))))

\* array.map(normalizeText)
normalizeAll(arr) == [i \in 1..Len(arr) |-> normalizeText(arr[i])]

\* String.prototype.split(" ")
RECURSIVE split(_)
split(s) ==
  IF ~includes(s, " ") THEN <<s>>
  ELSE LET i == CHOOSE k \in 1..Len(s) :
                  CharAt(s, k) = " " /\ \A m \in 1..(k - 1) : CharAt(s, m) # " "
       IN  <<SubSeq(s, 1, i - 1)>> \o split(SubSeq(s, i + 1, Len(s)))

\* tokens: the set of the words of the normalised text that are no stop words
tokens(s) ==
  LET t == SelectSeq(split(normalizeText(s)),
                     LAMBDA w : w # "" /\ w \notin STOP_WORDS)
  IN  {t[i] : i \in 1..Len(t)}

\* a ratio in [0, 1]
jaccard(setA, setB) ==
  IF setA = {} /\ setB = {} THEN Int2R(0)
  ELSE LET inter == Cardinality(setA \cap setB)
           union == Cardinality(setA) + Cardinality(setB) - inter
       IN  IF union = 0 THEN Int2R(0) ELSE Frac(inter, union)

\* variant of mapTitleToGroup that keeps the last matching group, not the first
mapTitleToLastGroup(title) ==
  LET t == normalizeText(title)
      hit(k) == \E m \in 1..Len(TITLE_SYNONYMS[k]) : includes(t, TITLE_SYNONYMS[k][m])
  IN  IF \E k \in 1..Len(TITLE_SYNONYMS) : hit(k)
      THEN TITLE_SYNONYMS[CHOOSE k \in 1..Len(TITLE_SYNONYMS) :
                            hit(k) /\ \A j \in (k + 1)..Len(TITLE_SYNONYMS) : ~hit(j)][1]
      ELSE ""

\* the canonical label of the first group, in table order, one of whose
\* phrases occurs in the normalised title; "" when there is none
mapTitleToGroup(title) ==
  LET t == normalizeText(title)
      hit(k) == \E m \in 1..Len(TITLE_SYNONYMS[k]) : includes(t, TITLE_SYNONYMS[k][m])
  IN  IF \E k \in 1..Len(TITLE_SYNONYMS) : hit(k)
      THEN TITLE_SYNONYMS[CHOOSE k \in 1..Len(TITLE_SYNONYMS) :
                            hit(k) /\ \A j \in 1..(k - 1) : ~hit(j)][1]
      ELSE ""

----------------------------------------------------------------------------
(* Optional values: undefined / null is the empty tuple, a present value v *)
(* is <<v>>.  An optional string that the code reads as `x || ""` is "".   *)

NULL == <<>>

Some(v) == <<v>>

\* typeof x === "number" ? x : null
numberOrNull(x) == IF x # NULL THEN x ELSE NULL

\* the truthiness of a null-or-number: null and 0 are falsy
truthy(x) == x # NULL /\ x[1] # 0

\* x ?? y, for a null-or-number x and a number y
coalesce(x, y) == IF x # NULL THEN x[1] ELSE y

\* Number.MAX_SAFE_INTEGER is 2^53 - 1.  It is only ever an argument of
\* Math.min against a job salary; the model uses the largest integer of its
\* own arithmetic, which every salary of the model is below as well.
MAX_SAFE_INTEGER == 2147483647

----------------------------------------------------------------------------
(* Skill matcher                                                           *)

buildSkillSetFromClient(c) ==
  Dedup(FilterNonEmpty(
    normalizeAll(c.skills \o c.mustHaveSkills \o c.niceToHaveSkills)))

\* variant of extractMatchedSkills without the test sk.length >= 2
extractMatchedSkillsAnyLength(jobText, skillSet) ==
  LET text == normalizeText(jobText)
  IN  SelectSeq(skillSet, LAMBDA sk : includes(text, sk))

extractMatchedSkills(jobText, skillSet) ==
  LET text == normalizeText(jobText)
  IN  SelectSeq(skillSet, LAMBDA sk : Len(sk) >= 2 /\ includes(text, sk))

\* (client.mustHaveSkills || []).map(normalizeText).filter(Boolean)
mustHaveOf(c) == FilterNonEmpty(normalizeAll(c.mustHaveSkills))

\* `${jobTitle}\n${jobDesc}`
jobTextForSkills(j) == j.title \o "\n" \o j.description

\* variant of the hard gate with the threshold at one half
tooFewMustHavesBelowHalf(mustRatio) == RLess(mustRatio, Frac(1, 2))

\* mustRatio < 0.6
tooFewMustHaves(mustRatio) == RLess(mustRatio, Frac(6, 10))

\* 1) Must-have skills (hard gate)
mustHaveGate(c, j) ==
  LET mustHave    == mustHaveOf(c)
      matched     == extractMatchedSkills(jobTextForSkills(j),
                                          buildSkillSetFromClient(c))
      matchedMust == SelectSeq(mustHave, LAMBDA s : arrayIncludes(matched, s))
      missingMust == SelectSeq(mustHave, LAMBDA s : ~arrayIncludes(matched, s))
      mustRatio   == Frac(Len(matchedMust), Len(mustHave))
      rejected    == Len(mustHave) > 0 /\ tooFewMustHaves(mustRatio)
  IN  [ mustHave    |-> mustHave,
        matched     |-> matched,
        matchedMust |-> matchedMust,
        missingMust |-> missingMust,
        hardReject  |-> rejected,
        mustHaveRatio |-> IF Len(mustHave) > 0 THEN Some(mustRatio) ELSE NULL,
        reasons |->
          IF Len(mustHave) > 0
          THEN IF tooFewMustHaves(mustRatio)
               THEN << "Rejected: missing must-have skills ("
                       \o join(SubSeq(missingMust, 1, Min(8, Len(missingMust))), ", ")
                       \o (IF Len(missingMust) > 8 THEN "..." ELSE "")
                       \o ")" >>
               ELSE IF Len(missingMust) > 0
               THEN << "Warning: missing some must-have skills ("
                       \o join(missingMust, ", ") \o ")" >>
               ELSE <<>>
          ELSE <<>> ]

\* variant of skillPart that tests the two thresholds with two separate
\* `if`s, so that a strong match is reported as a moderate one as well
skillPartBothReasons(c, gate) ==
  LET size == Len(buildSkillSetFromClient(c))
      totalSkillsMentioned == IF size = 0 THEN 1 ELSE size
      overallRatio == Frac(Len(gate.matched), totalSkillsMentioned)
      mustRatio == IF gate.mustHaveRatio # NULL THEN gate.mustHaveRatio[1]
                   ELSE Int2R(0)
      skillScore ==
        IF Len(gate.mustHave) > 0
        THEN RMul(RAdd(RMul(mustRatio, Frac(7, 10)),
                       RMul(overallRatio, Frac(3, 10))), Int2R(40))
        ELSE RMul(overallRatio, Int2R(40))
      clamped == clamp(skillScore, 0, 40)
      rounded == MathRound(clamped)
  IN  [ skillScore |-> clamped,
        reasons |-> IF rounded >= 28
                    THEN <<"Strong skill match", "Moderate skill match">>
                    ELSE IF rounded >= 18 THEN <<"Moderate skill match">>
                    ELSE <<"Weak skill match">> ]

\* 2) Skill score (0-40), before Math.round
skillPart(c, gate) ==
  LET size == Len(buildSkillSetFromClient(c))
      totalSkillsMentioned == IF size = 0 THEN 1 ELSE size
      overallRatio == Frac(Len(gate.matched), totalSkillsMentioned)
      mustRatio == IF gate.mustHaveRatio # NULL THEN gate.mustHaveRatio[1]
                   ELSE Int2R(0)
      skillScore ==
        IF Len(gate.mustHave) > 0
        THEN RMul(RAdd(RMul(mustRatio, Frac(7, 10)),
                       RMul(overallRatio, Frac(3, 10))), Int2R(40))
        ELSE RMul(overallRatio, Int2R(40))
      clamped == clamp(skillScore, 0, 40)
      rounded == MathRound(clamped)
  IN  [ skillScore |-> clamped,
        reasons |-> IF rounded >= 28 THEN <<"Strong skill match">>
                    ELSE IF rounded >= 18 THEN <<"Moderate skill match">>
                    ELSE <<"Weak skill match">> ]

----------------------------------------------------------------------------
(* Title similarity                                                        *)

\* the body of the loop over preferredTitles, for one preferred title t
titleSimilarity(jobTitle, t) ==
  LET pref       == normalizeText(t)
      sim        == jaccard(tokens(jobTitle), tokens(pref))
      jobGroup   == mapTitleToGroup(jobTitle)
      prefGroup  == mapTitleToGroup(pref)
      groupBonus == IF jobGroup # "" /\ prefGroup # "" /\ jobGroup = prefGroup
                    THEN Frac(1, 4) ELSE Int2R(0)
  IN  clamp(RAdd(sim, groupBonus), 0, 1)

RECURSIVE bestTitle(_, _, _)
bestTitle(jobTitle, titles, best) ==
  IF titles = <<>> THEN best
  ELSE bestTitle(jobTitle, Tail(titles),
                 RMax(best, titleSimilarity(jobTitle, Head(titles))))

\* 3) Title similarity (0-20), before Math.round
titlePart(c, j) ==
  LET preferredTitles == FilterNonEmpty(c.preferredTitles)
      titleScore == IF Len(preferredTitles) > 0
                    THEN RMul(bestTitle(j.title, preferredTitles, Int2R(0)), Int2R(20))
                    ELSE Int2R(10)
      clamped == clamp(titleScore, 0, 20)
      rounded == MathRound(clamped)
  IN  [ titleScore |-> clamped,
        reasons |-> IF rounded >= 16 THEN <<"Title matches preference well">>
                    ELSE IF rounded >= 10 THEN <<"Title is somewhat relevant">>
                    ELSE <<"Title relevance is low">> ]

----------------------------------------------------------------------------
(* Salary match                                                            *)

\* variant of overlapOf that measures from the lower of the two low ends
overlapFromLowest(clientLow, clientHigh, jobLow, jobHigh) ==
  Max(0, Min(clientHigh, jobHigh) - Min(clientLow, jobLow))

\* variant of overlapOf that counts both ends of the overlap
overlapOfInclusive(clientLow, clientHigh, jobLow, jobHigh) ==
  Max(0, Min(clientHigh, jobHigh) - Max(clientLow, jobLow) + 1)

\* overlap of the job range with the client range
overlapOf(clientLow, clientHigh, jobLow, jobHigh) ==
  LET overlapLow  == Max(clientLow, jobLow)
      overlapHigh == Min(clientHigh, jobHigh)
  IN  Max(0, overlapHigh - overlapLow)

\* 4) Salary match (0-20), before Math.round
salaryPart(c, j) ==
  LET cMin == numberOrNull(c.salaryMin)
      cMax == numberOrNull(c.salaryMax)
      jMin == numberOrNull(j.salaryMin)
      jMax == numberOrNull(j.salaryMax)
      clientLow   == coalesce(cMin, 0)
      clientHigh  == coalesce(cMax, MAX_SAFE_INTEGER)
      jobLow      == coalesce(jMin, coalesce(jMax, 0))
      jobHigh     == coalesce(jMax, coalesce(jMin, MAX_SAFE_INTEGER))
      overlap     == overlapOf(clientLow, clientHigh, jobLow, jobHigh)
      jobRange    == Max(1, jobHigh - jobLow)
      overlapRatio == Frac(overlap, jobRange)
      overlapScore == clamp(RMul(overlapRatio, Int2R(20)), 0, 20)
  IN  IF (truthy(cMin) \/ truthy(cMax)) /\ (truthy(jMin) \/ truthy(jMax))
      THEN [ salaryScore |-> overlapScore,
             reasons |-> IF RGeq(overlapScore, Int2R(14))
                         THEN <<"Salary range fits preference">>
                         ELSE IF RGeq(overlapScore, Int2R(8))
                         THEN <<"Salary range partially fits">>
                         ELSE <<"Salary likely outside preference">> ]
      ELSE IF truthy(cMin) \/ truthy(cMax)
      THEN [ salaryScore |-> Int2R(8),
             reasons |-> <<"Salary unknown (cannot confirm fit)">> ]
      ELSE [ salaryScore |-> Int2R(10), reasons |-> <<>> ]

----------------------------------------------------------------------------
(* Location and work type                                                  *)

\* variant of workTypePart that compares the work types also when the
\* candidate's is "any"
workTypePartNoAny(c, j) ==
  LET jobWorkType == toLowerCase(j.workType)
      cWork == toLowerCase(IF c.workType = "" THEN "any" ELSE c.workType)
  IN  IF jobWorkType = ""
      THEN [ workTypeScore |-> 6,
             reasons |-> <<"Work type unknown (cannot confirm remote/onsite/hybrid)">> ]
      ELSE IF jobWorkType = cWork
      THEN [ workTypeScore |-> 10,
             reasons |-> <<"Work type matches preference">> ]
      ELSE [ workTypeScore |-> 0,
             reasons |-> <<"Work type does not match preference">> ]

\* 5a) work type: 10 points
workTypePart(c, j) ==
  LET jobWorkType == toLowerCase(j.workType)
      cWork == toLowerCase(IF c.workType = "" THEN "any" ELSE c.workType)
  IN  IF cWork # "any"
      THEN IF jobWorkType = ""
           THEN [ workTypeScore |-> 6,
                  reasons |-> <<"Work type unknown (cannot confirm remote/onsite/hybrid)">> ]
           ELSE IF jobWorkType = cWork
           THEN [ workTypeScore |-> 10,
                  reasons |-> <<"Work type matches preference">> ]
           ELSE [ workTypeScore |-> 0,
                  reasons |-> <<"Work type does not match preference">> ]
      ELSE [ workTypeScore |-> 10, reasons |-> <<>> ]

\* 5b) country: locationScore after the country block
countryPart(c, j) ==
  LET jobCountry == toLowerCase(j.country)
      cCountries == normalizeAll(c.preferredCountries)
  IN  IF Len(cCountries) > 0
      THEN IF jobCountry = ""
           THEN [ locationScore |-> 6,
                  reasons |-> <<"Country unknown (cannot confirm location)">> ]
           ELSE IF arrayIncludes(cCountries, jobCountry)
           THEN [ locationScore |-> 10,
                  reasons |-> <<"Country matches preference">> ]
           ELSE [ locationScore |-> 0,
                  reasons |-> <<"Country does not match preference">> ]
      ELSE [ locationScore |-> 10, reasons |-> <<>> ]

\* 5c) city: locationScore after the city block, given the one before it
cityPart(c, j, locationScore) ==
  LET jobCity == toLowerCase(j.city)
      cCities == normalizeAll(c.preferredCities)
  IN  IF locationScore > 0 /\ Len(cCities) > 0
      THEN IF jobCity = ""
           THEN [ locationScore |-> Min(locationScore, 8),
                  reasons |-> <<"City unknown (cannot confirm city)">> ]
           ELSE IF arrayIncludes(cCities, jobCity)
           THEN [ locationScore |-> Min(10, locationScore + 2),
                  reasons |-> <<"City matches preference">> ]
           ELSE [ locationScore |-> Max(0, locationScore - 4),
                  reasons |-> <<"City differs from preference">> ]
      ELSE [ locationScore |-> locationScore, reasons |-> <<>> ]

\* clamp(workTypeScore + locationScore, 0, 20)
locWorkScoreOf(workTypeScore, locationScore) ==
  Max(0, Min(20, workTypeScore + locationScore))

----------------------------------------------------------------------------
(* Industry preference                                                     *)

\* 6) Industry preference (0-10)
industryPart(c, j) ==
  LET prefIndustries == FilterNonEmpty(normalizeAll(c.preferredIndustries))
      ji == normalizeText(j.industry)
  IN  IF Len(prefIndustries) > 0
      THEN IF ji = ""
           THEN [ industryScore |-> 4,
                  reasons |-> <<"Industry unknown (cannot confirm fit)">> ]
           ELSE IF \E i \in 1..Len(prefIndustries) :
                     includes(ji, prefIndustries[i]) \/ includes(prefIndustries[i], ji)
           THEN [ industryScore |-> 10,
                  reasons |-> <<"Industry matches preference">> ]
           ELSE [ industryScore |-> 2,
                  reasons |-> <<"Industry may not match preference">> ]
      ELSE [ industryScore |-> 5, reasons |-> <<>> ]

----------------------------------------------------------------------------
(* Scoring orchestrator                                                    *)

\* variant of finalScore that truncates instead of rounding
finalScoreTruncated(hardReject, raw) ==
  IF hardReject THEN Min(49, raw.n \div raw.d) ELSE raw.n \div raw.d

\* hardReject ? Math.min(49, Math.round(raw)) : Math.round(raw)
finalScore(hardReject, raw) ==
  IF hardReject THEN Min(49, MathRound(raw)) ELSE MathRound(raw)

\* variant of passOf with a strict comparison
passOfAbove(score, hardReject) == score > 70 /\ ~hardReject

\* score >= 70 && !hardReject
passOf(score, hardReject) == score >= 70 /\ ~hardReject

\* one run of scoreJobForClient(client, job): the fields of the returned
\* object, and under `locals` the function's local variables at the return
runScore(c, j) ==
  LET gate     == mustHaveGate(c, j)
      skill    == skillPart(c, gate)
      title    == titlePart(c, j)
      salary   == salaryPart(c, j)
      work     == workTypePart(c, j)
      country  == countryPart(c, j)
      city     == cityPart(c, j, country.locationScore)
      locWorkScore == locWorkScoreOf(work.workTypeScore, city.locationScore)
      industry == industryPart(c, j)
      raw      == RAdd(RAdd(RAdd(RAdd(skill.skillScore, title.titleScore),
                                 salary.salaryScore),
                            Int2R(locWorkScore)),
                       Int2R(industry.industryScore))
      score    == finalScore(gate.hardReject, raw)
  IN  [ score      |-> score,
        pass       |-> passOf(score, gate.hardReject),
        hardReject |-> gate.hardReject,
        breakdown  |->
          [ mustHaveMatched   |-> gate.matchedMust,
            mustHaveMissing   |-> gate.missingMust,
            skillsMatched     |-> gate.matched,
            mustHaveRatio     |-> gate.mustHaveRatio,
            skillScore        |-> MathRound(skill.skillScore),
            titleScore        |-> MathRound(title.titleScore),
            salaryScore       |-> MathRound(salary.salaryScore),
            locationWorkScore |-> locWorkScore,
            industryScore     |-> industry.industryScore ],
        reasons    |-> gate.reasons \o skill.reasons \o title.reasons
                       \o salary.reasons \o work.reasons \o country.reasons
                       \o city.reasons \o industry.reasons,
        locals     |->
          [ skillScore    |-> skill.skillScore,
            titleScore    |-> title.titleScore,
            salaryScore   |-> salary.salaryScore,
            workTypeScore |-> work.workTypeScore,
            countryScore  |-> country.locationScore,
            locationScore |-> city.locationScore,
            raw           |-> raw ] ]

\* return { score, pass, hardReject, breakdown, reasons }
returnedObject(run) ==
  [ score |-> run.score, pass |-> run.pass, hardReject |-> run.hardReject,
    breakdown |-> run.breakdown, reasons |-> run.reasons ]

\* the object scoreJobForClient returns
scoreJobForClient(c, j) == returnedObject(runScore(c, j))

----------------------------------------------------------------------------
(* Inputs.  A client profile has passed clientProfileSchema: every string  *)
(* of its lists is trimmed and non-empty, workType is one of the enum,     *)
(* salaryMin <= salaryMax when both are given.  A job has passed           *)
(* normalizeJob: title is non-empty, industry / country / city are absent  *)
(* ("" below) or non-empty with single spaces, workType is one of the      *)
(* enum, the salaries are unordered non-negative integers or absent.       *)

MaxMustHave == 2

MaxSkills == 2

MaxTitles == 2

MaxPlaces == 1

MaxRepeated == 3

SeqsUpTo(S, n) == UNION {[1..k -> S] : k \in 0..n}

NoPreferences ==
  [ skills |-> <<>>, mustHaveSkills |-> <<>>, niceToHaveSkills |-> <<>>,
    preferredTitles |-> <<>>, preferredIndustries |-> <<>>,
    preferredCountries |-> <<>>, preferredCities |-> <<>>,
    workType |-> "any", salaryMin |-> NULL, salaryMax |-> NULL ]

PlainJob ==
  [ title |-> "Backend Developer", description |-> "", industry |-> "",
    workType |-> "unknown", country |-> "", city |-> "",
    salaryMin |-> NULL, salaryMax |-> NULL ]

ClientWorkTypes == {"remote", "onsite", "hybrid", "any"}

JobWorkTypes == {"remote", "onsite", "hybrid", "unknown"}

SalaryValues == {0, 80000, 90000, 100000, 120000, 150000}

OptSalaries == {NULL} \cup {Some(v) : v \in SalaryValues}

\* the superRefine of clientProfileSchema
salaryOrdered(lo, hi) ==
  IF lo = NULL \/ hi = NULL THEN TRUE ELSE lo[1] <= hi[1]

\* skills: every list of the profile against a few job texts
InitSkills ==
  /\ \E must \in SeqsUpTo({"Node.js", "NODE.JS", "C#", "C", "(!)"}, MaxMustHave),
        sk \in SeqsUpTo({"React", "Go"}, MaxSkills),
        nice \in {<<>>, <<"Docker">>} :
       client = [NoPreferences EXCEPT !.mustHaveSkills = must, !.skills = sk,
                                      !.niceToHaveSkills = nice]
  /\ \E desc \in {"", "We use Node.js, React and C#.", "Go (Golang); Docker"} :
       job = [PlainJob EXCEPT !.description = desc]

\* titles: preferred titles against job titles
InitTitles ==
  /\ \E titles \in SeqsUpTo({"Backend Engineer", "Frontend Developer",
                             "Software Developer", "QA", "Head of the Kitchen"},
                            MaxTitles) :
       client = [NoPreferences EXCEPT !.preferredTitles = titles]
  /\ \E t \in {"Back-end Software Engineer", "Backend Engineer", "Backend Developer",
               "Senior QA Automation Engineer", "Sous Chef", "Head of Kitchen"} :
       job = [PlainJob EXCEPT !.title = t]

\* salaries: every presence pattern and order of the four bounds
InitSalaries ==
  /\ \E sal \in {p \in OptSalaries \X OptSalaries : salaryOrdered(p[1], p[2])} :
       client = [NoPreferences EXCEPT !.salaryMin = sal[1], !.salaryMax = sal[2]]
  /\ \E lo \in OptSalaries, hi \in OptSalaries :
       job = [PlainJob EXCEPT !.salaryMin = lo, !.salaryMax = hi]

\* salaries whose overlap score lies just below a threshold of the reasons
InitSalaryThresholds ==
  /\ \E hi \in {95000, 128000} :
       client = [NoPreferences EXCEPT !.salaryMin = Some(80000),
                                      !.salaryMax = Some(hi)]
  /\ \E hi \in {120000, 150000} :
       job = [PlainJob EXCEPT !.salaryMin = Some(80000), !.salaryMax = Some(hi)]

\* work type, country and city
InitPlaces ==
  /\ \E w \in ClientWorkTypes,
        countries \in SeqsUpTo({"Germany", "Korea, Republic of"}, MaxPlaces),
        cities \in SeqsUpTo({"Berlin", "St. John's"}, MaxPlaces) :
       client = [NoPreferences EXCEPT !.workType = w,
                                      !.preferredCountries = countries,
                                      !.preferredCities = cities]
  /\ \E w \in JobWorkTypes,
        country \in {"", "Germany", "France", "Korea, Republic of"},
        city \in {"", "Berlin", "Munich", "St. John's"} :
       job = [PlainJob EXCEPT !.workType = w, !.country = country, !.city = city]

\* every category at once, a few values of each
InitCombined ==
  /\ \E must \in {<<>>, <<"Node.js", "C#">>},
        sk \in {<<>>, <<"React", "Go", "Node.js">>},
        titles \in {<<>>, <<"Backend Developer">>, <<"Frontend Developer">>},
        sal \in {<<NULL, NULL>>, <<Some(80000), Some(120000)>>},
        w \in {"any", "onsite"},
        industries \in {<<>>, <<"Software">>},
        cities \in {<<>>, <<"Berlin">>} :
       client = [ skills |-> sk, mustHaveSkills |-> must, niceToHaveSkills |-> <<>>,
                  preferredTitles |-> titles, preferredIndustries |-> industries,
                  preferredCountries |-> <<"Germany">>, preferredCities |-> cities,
                  workType |-> w, salaryMin |-> sal[1], salaryMax |-> sal[2] ]
  /\ \E desc \in {"", "Node.js and React", "Node.js, React, Go, C#"},
        sal \in {<<NULL, NULL>>, <<Some(100000), Some(150000)>>,
                 <<Some(90000), Some(120000)>>},
        country \in {"", "Germany"},
        industry \in {"Computer Software", "Banking"} :
       job = [ title |-> "Backend Developer", description |-> desc,
               industry |-> industry, workType |-> "remote", country |-> country,
               city |-> "Berlin", salaryMin |-> sal[1], salaryMax |-> sal[2] ]

\* must-have lists with an entry repeated, literally or up to letter case
InitRepeatedMustHaves ==
  /\ \E must \in [1..MaxRepeated -> {"Node.js", "NODE.JS", "C#"}],
        sk \in {<<>>, <<"React">>} :
       client = [NoPreferences EXCEPT !.mustHaveSkills = must, !.skills = sk]
  /\ \E desc \in {"", "Node.js and React", "C# and .NET", "Node.js, React, Go, C#"} :
       job = [PlainJob EXCEPT !.description = desc]

\* a candidate without preferences against jobs of every kind
InitNeutral ==
  /\ \E sk \in {<<>>, <<"React">>, <<"React", "Go">>},
        countries \in {<<>>, <<"Germany">>} :
       client = [NoPreferences EXCEPT !.skills = sk,
                                      !.preferredCountries = countries]
  /\ \E t \in {"Backend Developer", "Sous Chef"},
        desc \in {"", "React Native", "React and Go"},
        sal \in {<<NULL, NULL>>, <<Some(0), Some(80000)>>,
                 <<Some(150000), Some(100000)>>},
        w \in JobWorkTypes,
        industry \in {"", "Banking"},
        country \in {"", "Germany"} :
       job = [PlainJob EXCEPT !.title = t, !.description = desc,
                              !.salaryMin = sal[1], !.salaryMax = sal[2],
                              !.workType = w, !.industry = industry,
                              !.country = country]

Init ==
  /\ \/ InitSkills \/ InitTitles \/ InitSalaries \/ InitPlaces \/ InitCombined
     \/ InitRepeatedMustHaves \/ InitNeutral \/ InitSalaryThresholds
  /\ result = NULL
  /\ pc = "request"
  /\ clientProfile = NULL /\ filters = NULL /\ jobs = <<>> /\ response = NULL

\* the call scoreJobForClient(clientProfile, jobForScoring)
Score ==
  /\ pc = "request"
  /\ result' = Some(runScore(client, job))
  /\ pc' = "scored"
  /\ UNCHANGED <<client, job, clientProfile, filters, jobs, response>>

Next == Score

Spec == Init /\ [][Next]_vars

----------------------------------------------------------------------------
(* POST /api/jobs/search: the handler searchJobs, from the fetched jobs to *)
(* the response.  The request has passed jobSearchSchema (and              *)
(* clientProfileSchema when it carries a profile), at least one board is   *)
(* given and every board has answered; freshness is "any".                 *)

MaxJobs == 3

MaxLimit == 2

\* .replace(/<[^>]*>/g, " "): a "<" up to the next ">" becomes one space
RECURSIVE replaceTags(_)
replaceTags(s) ==
  IF s = "" THEN ""
  ELSE IF CharAt(s, 1) = "<" /\ includes(Tail(s), ">")
  THEN LET k == CHOOSE i \in 2..Len(s) :
                  CharAt(s, i) = ">" /\ \A m \in 2..(i - 1) : CharAt(s, m) # ">"
       IN  " " \o replaceTags(SubSeq(s, k + 1, Len(s)))
  ELSE CharAt(s, 1) \o replaceTags(Tail(s))

stripHtml(html) == trim(collapseWhiteSpace(replaceTags(html)))

includesCI(hay, needle) == includes(toLowerCase(hay), toLowerCase(needle))

normalizeCI(s) == toLowerCase(trim(s))

countryMatches(j, targetCountry, allowRemoteUnknownCountry) ==
  LET tc == normalizeCI(targetCountry)
      jc == normalizeCI(j.country)
  IN  IF tc = "" THEN TRUE
      ELSE IF allowRemoteUnknownCountry /\ j.workType = "remote" /\ jc = ""
      THEN TRUE
      ELSE jc = tc

cityMatches(j, targetCity) ==
  IF targetCity = "" THEN TRUE
  ELSE LET tc == normalizeCI(targetCity)
           jc == normalizeCI(j.city)
       IN  IF jc = "" THEN FALSE ELSE jc = tc

\* 5) the predicate of the user filters (freshness "any" keeps every job)
keptByFilters(j, f) ==
  /\ includesCI(j.title, f.jobTitle)
  /\ f.industry # "" => (j.industry # "" /\ includesCI(j.industry, f.industry))
  /\ f.workType # "" => (j.workType # "unknown" /\ j.workType = f.workType)
  /\ countryMatches(j, f.country, TRUE)
  /\ cityMatches(j, f.city)

\* { ...job, description: stripHtml(job.description || "") }
jobForScoring(j) == [j EXCEPT !.description = stripHtml(j.description)]

\* { ...job, matchScore: scored.score, pass: scored.pass, ... }
scoredEntry(j, scored) ==
  [ job |-> j, matchScore |-> Some(scored.score), pass |-> Some(scored.pass),
    reasons |-> scored.reasons, breakdown |-> Some(scored.breakdown) ]

\* 6) the object the map callback returns for one job
scoredJob(profile, j) ==
  scoredEntry(j, scoreJobForClient(profile, jobForScoring(j)))

\* the object of the branch without a client profile
unscoredJob(j) ==
  [ job |-> j, matchScore |-> NULL, pass |-> NULL, reasons |-> <<>>,
    breakdown |-> Some(<<>>) ]

\* variant of compareByMatchScore that orders by increasing score
compareByMatchScoreAscending(a, b) ==
  coalesce(a.matchScore, 0) - coalesce(b.matchScore, 0)

\* (a, b) => (b.matchScore ?? 0) - (a.matchScore ?? 0)
compareByMatchScore(a, b) ==
  coalesce(b.matchScore, 0) - coalesce(a.matchScore, 0)

\* x placed into the sorted list before the first element that the
\* comparator orders after it
insertSorted(sorted, x) ==
  LET after == {i \in 1..Len(sorted) : compareByMatchScore(sorted[i], x) > 0}
      pos   == IF after = {} THEN Len(sorted) + 1
               ELSE CHOOSE i \in after : \A k \in after : i <= k
  IN  SubSeq(sorted, 1, pos - 1) \o <<x>> \o SubSeq(sorted, pos, Len(sorted))

\* Array.prototype.sort with that comparator: a stable sort
RECURSIVE sort(_)
sort(arr) ==
  IF arr = <<>> THEN <<>>
  ELSE insertSorted(sort(SubSeq(arr, 1, Len(arr) - 1)), arr[Len(arr)])

\* Array.prototype.slice(0, end), for end >= 0
slice(arr, end) == SubSeq(arr, 1, Min(end, Len(arr)))

\* pass is truthy
passes(r) == r.pass = Some(TRUE)

\* the results of the handler: steps 5, 6 and 7
resultsOf(profile, f, fetched) ==
  LET kept == SelectSeq(fetched, LAMBDA j : keptByFilters(j, f))
      results ==
        IF profile # NULL
        THEN sort(SelectSeq([i \in 1..Len(kept) |-> scoredJob(profile[1], kept[i])],
                            passes))
        ELSE [i \in 1..Len(kept) |-> unscoredJob(kept[i])]
  IN  slice(results, f.limit)

SearchProfiles ==
  { [NoPreferences EXCEPT !.mustHaveSkills = <<"Node.js">>, !.skills = <<"React">>,
                          !.preferredTitles = <<"Backend Developer">>,
                          !.preferredCountries = <<"Germany">>],
    [NoPreferences EXCEPT !.skills = <<"React", "Go">>,
                          !.preferredTitles = <<"Backend Developer">>,
                          !.preferredCountries = <<"Germany">>] }

FetchedJobs ==
  { [PlainJob EXCEPT !.title = "Backend Developer", !.country = "Germany",
                     !.description = "<p>Node.js</p>"],
    [PlainJob EXCEPT !.title = "Backend Developer", !.country = "Germany",
                     !.city = "Berlin", !.description = "Node.js<br>APIs"],
    [PlainJob EXCEPT !.title = "Backend Developer", !.country = "Germany",
                     !.description = "<p>Go and <b>React</b></p>"],
    [PlainJob EXCEPT !.title = "Frontend Developer", !.workType = "remote",
                     !.description = "<ul><li>Node.js</li></ul>"] }

SearchFilters ==
  [ jobTitle : {"developer", "Backend"}, industry : {""}, workType : {""},
    freshness : {"any"}, country : {"Germany"}, city : {""},
    limit : 1..MaxLimit ]

SearchInit ==
  /\ clientProfile \in {NULL} \cup {Some(p) : p \in SearchProfiles}
  /\ filters \in SearchFilters
  /\ jobs \in SeqsUpTo(FetchedJobs, MaxJobs)
  /\ response = NULL
  /\ pc = "search"
  /\ client = NoPreferences /\ job = PlainJob /\ result = NULL

\* the handler, from the flattened job lists to res.json(...)
\* res.json({ ok: true, ..., count: results.length, results })
json(results) == [ok |-> TRUE, count |-> Len(results), results |-> results]

searchJobs ==
  /\ pc = "search"
  /\ response' = Some(json(resultsOf(clientProfile, filters, jobs)))
  /\ pc' = "responded"
  /\ UNCHANGED <<client, job, result, clientProfile, filters, jobs>>

SearchNext == searchJobs

SearchSpec == SearchInit /\ [][SearchNext]_vars

----------------------------------------------------------------------------
(* Properties of scoreJobForClient                                         *)

Scored == pc = "scored"

\* the reasons of the scored result contain x
hasReason(x) == arrayIncludes(result[1].reasons, x)

\* the sum of the five sub-scores reported in breakdown
breakdownSum ==
  LET b == result[1].breakdown
  IN  b.skillScore + b.titleScore + b.salaryScore + b.locationWorkScore
      + b.industryScore

\* C1: for every profile and job the score is an integer with
\* 0 <= score <= 100, also when every sub-score reaches its cap.
C1_ScoreWithin0And100 == Scored => result[1].score \in 0..100

\* how many entries of mustHaveSkills occur, normalised, as a substring of the
\* job's normalised title and description
substringMatchedMustHaves ==
  LET text == normalizeText(job.title \o " " \o job.description)
  IN  Cardinality({i \in 1..Len(client.mustHaveSkills) :
                     includes(text, normalizeText(client.mustHaveSkills[i]))})

fewerThan60PercentMatched ==
  /\ Len(client.mustHaveSkills) > 0
  /\ 10 * substringMatchedMustHaves < 6 * Len(client.mustHaveSkills)

\* C2: if mustHaveSkills is non-empty and fewer than 60% of the must-have
\* skills are substring-matched in the job's normalised title+description,
\* the result has hardReject = TRUE and score <= 49, hence pass = FALSE,
\* whatever the other sub-scores are.
C2_HardRejectCapsScore ==
  (Scored /\ fewerThan60PercentMatched)
    => /\ result[1].hardReject
       /\ result[1].score <= 49
       /\ ~result[1].pass

\* C2 witness: a rejected job whose uncapped rounded sum lies above the cap
C2_Witness ==
  /\ Scored
  /\ fewerThan60PercentMatched
  /\ MathRound(result[1].locals.raw) >= 70
  /\ result[1].score = 49

\* C3: pass = TRUE exactly when score >= 70 and hardReject = FALSE.
C3_PassIffThresholdAndNoReject ==
  Scored => (result[1].pass <=> (result[1].score >= 70 /\ ~result[1].hardReject))

\* C3 witness: a job that passes with the score exactly at the threshold
C3_Witness == Scored /\ result[1].score = 70 /\ result[1].pass

\* C4: every breakdown sub-score lies within its cap: skillScore in [0,40],
\* titleScore, salaryScore and locationWorkScore in [0,20], industryScore in
\* [0,10], also for a job with salaryMin > salaryMax or one salary bound.
C4_SubScoresWithinCaps ==
  Scored =>
    LET b == result[1].breakdown
    IN  /\ b.skillScore \in 0..40
        /\ b.titleScore \in 0..20
        /\ b.salaryScore \in 0..20
        /\ b.locationWorkScore \in 0..20
        /\ b.industryScore \in 0..10

\* C4 witness: the overlap computation has run on a job whose salaryMin
\* exceeds its salaryMax
C4_Witness ==
  /\ Scored
  /\ job.salaryMin # NULL /\ job.salaryMax # NULL
  /\ IF job.salaryMin # NULL /\ job.salaryMax # NULL
     THEN job.salaryMin[1] > job.salaryMax[1] ELSE FALSE
  /\ hasReason("Salary likely outside preference")

\* C5 as stated: the five breakdown sub-scores sum to the score when
\* hardReject = FALSE, and score = min(49, that sum) when hardReject = TRUE.
C5_BreakdownSumsToScore ==
  Scored =>
    IF result[1].hardReject
    THEN result[1].score = Min(49, breakdownSum)
    ELSE result[1].score = breakdownSum

\* the sum of the five sub-scores before any of them is rounded
unroundedSum ==
  LET l == result[1].locals
      b == result[1].breakdown
  IN  RAdd(RAdd(RAdd(RAdd(l.skillScore, l.titleScore), l.salaryScore),
                Int2R(b.locationWorkScore)), Int2R(b.industryScore))

\* C5 amended: each breakdown value is its sub-score rounded on its own, the
\* score is the rounded sum of the unrounded sub-scores (at most 49 when
\* hardReject = TRUE), and that rounded sum is within 1 of the breakdown sum.
C5_ScoreIsRoundedUnroundedSum ==
  Scored =>
    LET l == result[1].locals
        b == result[1].breakdown
        rounded == MathRound(unroundedSum)
    IN  /\ b.skillScore = MathRound(l.skillScore)
        /\ b.titleScore = MathRound(l.titleScore)
        /\ b.salaryScore = MathRound(l.salaryScore)
        /\ result[1].score = IF result[1].hardReject THEN Min(49, rounded)
                             ELSE rounded
        /\ rounded - breakdownSum \in {-1, 0, 1}

\* C5 witness: no hard reject, and the score is not the breakdown sum
C5_Witness ==
  Scored /\ ~result[1].hardReject /\ result[1].score # breakdownSum

WorkTypeReasons ==
  { "Work type unknown (cannot confirm remote/onsite/hybrid)",
    "Work type matches preference",
    "Work type does not match preference" }

\* C6: with the candidate's workType "any" the work-type component is 10 with
\* no reason; otherwise a job of workType "unknown" gives 6 with the reason
\* "Work type unknown ...", a job of the preferred workType 10 with "Work
\* type matches preference", and only a known, different workType gives 0
\* with "Work type does not match preference".
C6_WorkTypeRule ==
  Scored =>
    LET w == result[1].locals.workTypeScore
    IN  IF client.workType = "any"
        THEN w = 10 /\ \A x \in WorkTypeReasons : ~hasReason(x)
        ELSE IF job.workType = "unknown"
        THEN w = 6 /\ hasReason("Work type unknown (cannot confirm remote/onsite/hybrid)")
        ELSE IF job.workType = client.workType
        THEN w = 10 /\ hasReason("Work type matches preference")
        ELSE w = 0 /\ hasReason("Work type does not match preference")

OverlapReasons ==
  { "Salary range fits preference", "Salary range partially fits",
    "Salary likely outside preference" }

SalaryReasons == OverlapReasons \cup {"Salary unknown (cannot confirm fit)"}

clientGivesSalary == client.salaryMin # NULL \/ client.salaryMax # NULL

jobGivesSalary == job.salaryMin # NULL \/ job.salaryMax # NULL

\* C7: which salary case applies depends only on which salary fields are
\* present, for every non-negative value including 0: candidate and job both
\* give a bound -> the overlap computation with its reason; only the
\* candidate -> salaryScore 8 and "Salary unknown (cannot confirm fit)"; the
\* candidate gives none -> salaryScore 10 and no salary reason.
C7_SalaryCaseByPresence ==
  Scored =>
    LET sal == result[1].breakdown.salaryScore
    IN  IF clientGivesSalary /\ jobGivesSalary
        THEN /\ \E x \in OverlapReasons : hasReason(x)
             /\ ~hasReason("Salary unknown (cannot confirm fit)")
        ELSE IF clientGivesSalary
        THEN sal = 8 /\ hasReason("Salary unknown (cannot confirm fit)")
        ELSE sal = 10 /\ \A x \in SalaryReasons : ~hasReason(x)

allFourBoundsPositive ==
  /\ client.salaryMin # NULL /\ client.salaryMax # NULL
  /\ job.salaryMin # NULL /\ job.salaryMax # NULL
  /\ IF /\ client.salaryMin # NULL /\ client.salaryMax # NULL
        /\ job.salaryMin # NULL /\ job.salaryMax # NULL
     THEN /\ 0 < client.salaryMin[1] /\ client.salaryMin[1] <= client.salaryMax[1]
          /\ 0 < job.salaryMin[1] /\ job.salaryMin[1] <= job.salaryMax[1]
     ELSE FALSE

salaryScenario ==
  /\ client.salaryMin = Some(80000) /\ client.salaryMax = Some(120000)
  /\ job.salaryMin = Some(100000) /\ job.salaryMax = Some(150000)

\* C8: with all four bounds given, positive and ordered, salaryScore =
\* round(clamp(20 * max(0, min(cMax, jMax) - max(cMin, jMin))
\*             / max(1, jMax - jMin), 0, 20));
\* candidate [80000,120000] against job [100000,150000] gives salaryScore 8
\* and the reason "Salary range partially fits".
C8_SalaryOverlapFormula ==
  (Scored /\ allFourBoundsPositive) =>
    LET cMin == client.salaryMin[1]
        cMax == client.salaryMax[1]
        jMin == job.salaryMin[1]
        jMax == job.salaryMax[1]
        num  == 20 * Max(0, Min(cMax, jMax) - Max(cMin, jMin))
        den  == Max(1, jMax - jMin)
        capped == IF num > 20 * den THEN 20 * den ELSE IF num < 0 THEN 0 ELSE num
    IN  /\ result[1].breakdown.salaryScore = (2 * capped + den) \div (2 * den)
        /\ salaryScenario =>
             /\ result[1].breakdown.salaryScore = 8
             /\ hasReason("Salary range partially fits")

\* C8 witness: the scenario of the claim has been scored
C8_Witness == Scored /\ salaryScenario /\ result[1].breakdown.salaryScore = 8

titleScenario ==
  /\ client.preferredTitles = <<"Backend Engineer">>
  /\ job.title = "Back-end Software Engineer"

\* C9 as stated: for preferredTitles = ["Backend Engineer"] and the job title
\* "Back-end Software Engineer", titleScore >= 16 if both titles map to the
\* "backend" group and otherwise lies in the bucket 10..16; either way
\* titleScore >= 10 and "Title relevance is low" is not emitted.
C9_TitleScenarioAtLeastSomewhatRelevant ==
  (Scored /\ titleScenario) =>
    LET t == result[1].breakdown.titleScore
    IN  /\ IF /\ mapTitleToGroup(job.title) = "backend"
              /\ mapTitleToGroup(client.preferredTitles[1]) = "backend"
           THEN t >= 16
           ELSE t \in 10..16
        /\ t >= 10
        /\ ~hasReason("Title relevance is low")

\* C9 amended: in that scenario the job title maps to the group "software
\* engineer" (the first group of the table with a phrase in the title) and
\* the preferred title to "backend", so there is no bonus; the token overlap
\* is 1/4, titleScore = 5 and "Title relevance is low" is emitted.
C9_TitleScenarioIsLow ==
  (Scored /\ titleScenario) =>
    /\ result[1].breakdown.titleScore = 5
    /\ hasReason("Title relevance is low")
    /\ ~hasReason("Title is somewhat relevant")
    /\ ~hasReason("Title matches preference well")

\* C9 witness: the scenario of the claim has been scored
C9_Witness == Scored /\ titleScenario /\ result[1].breakdown.titleScore < 10

\* a job's place is in the preferred list: the same text up to letter case
inPreferred(list, place) ==
  \E i \in 1..Len(list) : toLowerCase(list[i]) = toLowerCase(place)

locationAfterCountry ==
  IF Len(client.preferredCountries) = 0 THEN 10
  ELSE IF job.country = "" THEN 6
  ELSE IF inPreferred(client.preferredCountries, job.country) THEN 10
  ELSE 0

locationAfterCity ==
  IF locationAfterCountry > 0 /\ Len(client.preferredCities) > 0
  THEN IF job.city = "" THEN Min(locationAfterCountry, 8)
       ELSE IF inPreferred(client.preferredCities, job.city)
       THEN Min(10, locationAfterCountry + 2)
       ELSE Max(0, locationAfterCountry - 4)
  ELSE locationAfterCountry

\* C10: locationScore starts at 10; with preferred countries it is 6 when the
\* job country is absent (reason "Country unknown ..."), 10 when the job
\* country is in the preferred set, else 0; then, only if it is > 0 and there
\* are preferred cities, an absent job city gives min(locationScore, 8), a
\* city in the preferred set min(10, locationScore + 2), another city
\* max(0, locationScore - 4); locationWorkScore =
\* clamp(workTypeScore + locationScore, 0, 20).
C10_LocationRule ==
  Scored =>
    LET l == result[1].locals
    IN  /\ l.countryScore = locationAfterCountry
        /\ l.locationScore = locationAfterCity
        /\ (Len(client.preferredCountries) > 0 /\ job.country = "")
             => hasReason("Country unknown (cannot confirm location)")
        /\ result[1].breakdown.locationWorkScore
             = Max(0, Min(20, l.workTypeScore + locationAfterCity))

\* an entry of the preferred list is the same text as the job's place, up to
\* letter case and text normalisation
sameNormalized(list, place) ==
  \E i \in 1..Len(list) : normalizeText(list[i]) = normalizeText(place)

\* C11: country and city are compared on normalised strings on both sides:
\* whenever the job's country (resp. city) and an entry of preferredCountries
\* (resp. preferredCities) are the same text up to letter case and
\* normalisation, the job gets "Country matches preference" (resp., when the
\* city is compared at all, "City matches preference").
C11_SameNormalizedPlaceMatches ==
  Scored =>
    /\ (job.country # "" /\ sameNormalized(client.preferredCountries, job.country))
         => hasReason("Country matches preference")
    /\ ( /\ result[1].locals.countryScore > 0
         /\ job.city # ""
         /\ sameNormalized(client.preferredCities, job.city) )
         => hasReason("City matches preference")

\* the must-have skills as a set of normalised skills
mustHaveSet ==
  {normalizeText(client.mustHaveSkills[i]) : i \in 1..Len(client.mustHaveSkills)}
    \ {""}

\* the matched skills reported in breakdown, as a set
matchedSet ==
  {result[1].breakdown.skillsMatched[i] :
     i \in 1..Len(result[1].breakdown.skillsMatched)}

\* |matched \cap mustHave| / |mustHave|, for a non-empty mustHave
setBasedRatio ==
  Frac(Cardinality(matchedSet \cap mustHaveSet), Cardinality(mustHaveSet))

\* C12: mustHaveRatio is |matched \cap mustHave| / |mustHave| with mustHave a
\* set of normalised skills (a repeated entry counts once), it is null
\* exactly when mustHave is empty, and hardReject is decided by that
\* set-based ratio being below 0.6.
C12_MustHaveRatioIsSetBased ==
  Scored =>
    IF mustHaveSet = {}
    THEN result[1].breakdown.mustHaveRatio = NULL /\ ~result[1].hardReject
    ELSE /\ result[1].breakdown.mustHaveRatio = Some(setBasedRatio)
         /\ result[1].hardReject <=> RLess(setBasedRatio, Frac(6, 10))

\* the candidate of the no-preference scenario
neutralClient ==
  /\ client.mustHaveSkills = <<>>
  /\ client.preferredTitles = <<>>
  /\ client.preferredIndustries = <<>>
  /\ client.workType = "any"
  /\ client.salaryMin = NULL /\ client.salaryMax = NULL

noPreferredPlaces ==
  client.preferredCountries = <<>> /\ client.preferredCities = <<>>

\* C13: with empty mustHaveSkills hardReject = FALSE; a candidate with no
\* preferred titles or industries, workType "any", no salary fields and no
\* must-have skills gets, for every job, titleScore = 10, industryScore = 5,
\* work-type component = 10 and salaryScore = 10, and with no preferred
\* countries or cities locationWorkScore = 20 and score = skillScore + 45.
C13_NeutralDefaults ==
  Scored =>
    LET b == result[1].breakdown
    IN  /\ client.mustHaveSkills = <<>> => ~result[1].hardReject
        /\ neutralClient =>
             /\ b.titleScore = 10
             /\ b.industryScore = 5
             /\ result[1].locals.workTypeScore = 10
             /\ b.salaryScore = 10
             /\ noPreferredPlaces =>
                  /\ b.locationWorkScore = 20
                  /\ result[1].score = b.skillScore + 45

\* C13 witness: the no-preference candidate, with skills partly matched,
\* scored against a job that states salary, work type and industry
C13_Witness ==
  /\ Scored /\ neutralClient /\ noPreferredPlaces
  /\ job.salaryMin # NULL /\ job.workType = "onsite" /\ job.industry # ""
  /\ result[1].breakdown.skillScore \in 1..39
  /\ result[1].score = result[1].breakdown.skillScore + 45

\* String.prototype.startsWith
startsWith(s, prefix) ==
  Len(s) >= Len(prefix) /\ SubSeq(s, 1, Len(prefix)) = prefix

SkillReasons ==
  {"Strong skill match", "Moderate skill match", "Weak skill match"}

TitleReasons ==
  { "Title matches preference well", "Title is somewhat relevant",
    "Title relevance is low" }

CountryReasons ==
  { "Country unknown (cannot confirm location)", "Country matches preference",
    "Country does not match preference" }

CityReasons ==
  { "City unknown (cannot confirm city)", "City matches preference",
    "City differs from preference" }

IndustryReasons ==
  { "Industry unknown (cannot confirm fit)", "Industry matches preference",
    "Industry may not match preference" }

\* the category of a reason, numbered in the order of evaluation; 0 for a
\* string that is no reason of any category
categoryOf(r) ==
  IF startsWith(r, "Rejected: ") \/ startsWith(r, "Warning: ") THEN 1
  ELSE IF r \in SkillReasons THEN 2
  ELSE IF r \in TitleReasons THEN 3
  ELSE IF r \in SalaryReasons THEN 4
  ELSE IF r \in WorkTypeReasons THEN 5
  ELSE IF r \in CountryReasons THEN 6
  ELSE IF r \in CityReasons THEN 7
  ELSE IF r \in IndustryReasons THEN 8
  ELSE 0

\* C14: the reasons come in the fixed category order: at most one must-have
\* reason, then exactly one skill reason, exactly one title reason, at most
\* one reason each for salary, work type, country, city and industry; no
\* reason of a later category precedes one of an earlier category; and a
\* "Rejected:" reason is present exactly when hardReject = TRUE.
C14_ReasonsInCategoryOrder ==
  Scored =>
    LET rs == result[1].reasons
        count(k) == Cardinality({i \in 1..Len(rs) : categoryOf(rs[i]) = k})
    IN  /\ \A i \in 1..Len(rs) : categoryOf(rs[i]) \in 1..8
        /\ \A i \in 1..Len(rs) : \A j \in (i + 1)..Len(rs) :
             categoryOf(rs[i]) < categoryOf(rs[j])
        /\ count(2) = 1 /\ count(3) = 1
        /\ \A k \in {1, 4, 5, 6, 7, 8} : count(k) <= 1
        /\ (\E i \in 1..Len(rs) : startsWith(rs[i], "Rejected:"))
             <=> result[1].hardReject

\* C14 witness: a rejected job with a reason of each of the eight categories
C14_Witness ==
  /\ Scored /\ result[1].hardReject
  /\ Len(result[1].reasons) = 8
  /\ startsWith(result[1].reasons[1], "Rejected:")
  /\ result[1].reasons[8] \in IndustryReasons

\* the candidate gives a salary bound that is not 0
clientGivesNonZeroSalary == truthy(client.salaryMin) \/ truthy(client.salaryMax)

\* the job gives exactly one of salaryMin / salaryMax, a positive value
jobGivesOnePositiveBound ==
  \/ truthy(job.salaryMin) /\ job.salaryMax = NULL
  \/ job.salaryMin = NULL /\ truthy(job.salaryMax)

\* the job's single posted value lies strictly inside the desired range
singleValueInsideRange ==
  /\ client.salaryMin # NULL /\ client.salaryMax # NULL
  /\ jobGivesOnePositiveBound
  /\ IF client.salaryMin # NULL /\ client.salaryMax # NULL
        /\ jobGivesOnePositiveBound
     THEN LET v == coalesce(job.salaryMin, coalesce(job.salaryMax, 0))
          IN  client.salaryMin[1] < v /\ v < client.salaryMax[1]
     ELSE FALSE

\* C16: whenever the candidate gives a non-zero salary bound and the job
\* gives exactly one of salaryMin / salaryMax (a positive value), the job
\* range has zero width and salaryScore is 0 with the reason "Salary likely
\* outside preference", even when the job's single value lies strictly
\* inside the candidate's range.
C16_SingleJobBoundScoresZero ==
  (Scored /\ clientGivesNonZeroSalary /\ jobGivesOnePositiveBound) =>
    /\ result[1].breakdown.salaryScore = 0
    /\ result[1].locals.salaryScore = Int2R(0)
    /\ hasReason("Salary likely outside preference")

\* C16 witness: the job's single value is strictly inside the desired range
\* and the salary score is 0
C16_Witness ==
  /\ Scored /\ singleValueInsideRange
  /\ result[1].breakdown.salaryScore = 0
  /\ hasReason("Salary likely outside preference")

\* every skill the candidate lists, of the three lists
candidateSkills == client.skills \o client.mustHaveSkills \o client.niceToHaveSkills

\* no candidate skill whose normalised form has fewer than 2 characters is in
\* skillsMatched
shortSkillsNeverMatched ==
  \A i \in 1..Len(candidateSkills) :
    Len(normalizeText(candidateSkills[i])) < 2
      => normalizeText(candidateSkills[i]) \notin matchedSet

\* the unrounded skill score is the weighted ratio whose denominators count
\* every skill with a normalised form of at least minLen characters: the
\* distinct ones of all lists, and the entries of mustHaveSkills
skillScoreCounts(minLen) ==
  LET b == result[1].breakdown
      distinct == {normalizeText(candidateSkills[i]) : i \in 1..Len(candidateSkills)}
      counted  == {sk \in distinct : Len(sk) >= minLen}
      mustCounted == Cardinality({i \in 1..Len(client.mustHaveSkills) :
                        Len(normalizeText(client.mustHaveSkills[i])) >= minLen})
      overall == Frac(Len(b.skillsMatched), Max(1, Cardinality(counted)))
  IN  result[1].locals.skillScore =
        IF mustCounted > 0
        THEN RMul(RAdd(RMul(Frac(Len(b.mustHaveMatched), mustCounted), Frac(7, 10)),
                       RMul(overall, Frac(3, 10))), Int2R(40))
        ELSE RMul(overall, Int2R(40))

\* mustHaveSkills is not empty and every entry normalises to one character
onlyOneCharMustHaves ==
  /\ Len(client.mustHaveSkills) > 0
  /\ \A i \in 1..Len(client.mustHaveSkills) :
       Len(normalizeText(client.mustHaveSkills[i])) = 1

hardRejected ==
  result[1].hardReject /\ result[1].score <= 49 /\ ~result[1].pass

\* C17 as stated: a candidate skill whose normalised form has fewer than 2
\* characters is never in skillsMatched, also when it occurs in the job
\* text, yet it counts in the denominators; so a profile whose mustHaveSkills
\* are all one-character skills is hard-rejected (hardReject = TRUE,
\* score <= 49, pass = FALSE) against every job.
C17_ShortSkillsCountInDenominators ==
  Scored =>
    /\ shortSkillsNeverMatched
    /\ skillScoreCounts(0)
    /\ onlyOneCharMustHaves => hardRejected

\* C17 amended: a skill whose normalised form has exactly one character is
\* never in skillsMatched yet counts in the denominators; a skill whose
\* normalised form is empty is never matched either but is dropped from both
\* denominators; a profile whose mustHaveSkills all normalise to one
\* character is hard-rejected against every job.
C17_OneCharSkillsCountInDenominators ==
  Scored =>
    /\ shortSkillsNeverMatched
    /\ skillScoreCounts(1)
    /\ onlyOneCharMustHaves => hardRejected

\* C17 witness: the only must-have is a one-character skill that occurs in
\* the job text, and the job is rejected
C17_Witness ==
  /\ Scored /\ onlyOneCharMustHaves
  /\ \E i \in 1..Len(client.mustHaveSkills) :
       includes(normalizeText(jobTextForSkills(job)),
                normalizeText(client.mustHaveSkills[i]))
  /\ hardRejected

\* C18: the qualitative reason of each category agrees with the sub-score
\* in breakdown: "Strong skill match" iff skillScore >= 28, "Moderate skill
\* match" iff 18 <= skillScore < 28; "Title matches preference well" iff
\* titleScore >= 16; and, when the overlap computation runs, "Salary range
\* fits preference" iff salaryScore >= 14, "Salary range partially fits" iff
\* 8 <= salaryScore < 14, "Salary likely outside preference" iff
\* salaryScore < 8.
C18_ReasonsAgreeWithBreakdown ==
  Scored =>
    LET b == result[1].breakdown
    IN  /\ hasReason("Strong skill match") <=> b.skillScore >= 28
        /\ hasReason("Moderate skill match")
             <=> (18 <= b.skillScore /\ b.skillScore < 28)
        /\ hasReason("Title matches preference well") <=> b.titleScore >= 16
        /\ (\E x \in OverlapReasons : hasReason(x)) =>
             /\ hasReason("Salary range fits preference") <=> b.salaryScore >= 14
             /\ hasReason("Salary range partially fits")
                  <=> (8 <= b.salaryScore /\ b.salaryScore < 14)
             /\ hasReason("Salary likely outside preference")
                  <=> b.salaryScore < 8

----------------------------------------------------------------------------
(* Properties of searchJobs                                                *)

\* the handler has answered a request that carried a client profile
RespondedWithProfile == pc = "responded" /\ clientProfile # NULL

\* the fetched jobs that the user filters keep, scored, those with pass =
\* true, in fetched order
passingJobs ==
  LET kept == SelectSeq(jobs, LAMBDA j : keptByFilters(j, filters))
  IN  SelectSeq([i \in 1..Len(kept) |-> scoredJob(clientProfile[1], kept[i])],
                passes)

\* the place of the i-th of the passing jobs p in the order of decreasing
\* matchScore, equal scores in fetched order
rankOf(p, i) ==
  1 + Cardinality({j \in 1..Len(p) :
                     \/ p[j].matchScore[1] > p[i].matchScore[1]
                     \/ p[j].matchScore[1] = p[i].matchScore[1] /\ j < i})

\* rs is the list p of passing jobs, sorted and cut to the limit
firstOfSortedPassing(rs, p) ==
  /\ \A k \in 1..Len(rs) :
       /\ rs[k].pass = Some(TRUE)
       /\ rs[k].matchScore[1] >= 70
       /\ \A i \in 1..Len(rs[k].reasons) :
            ~startsWith(rs[k].reasons[i], "Rejected:")
  /\ \A k \in 1..(Len(rs) - 1) :
       rs[k].matchScore[1] >= rs[k + 1].matchScore[1]
  /\ Len(rs) <= filters.limit
  /\ response[1].count = Len(rs)
  /\ Len(rs) = Min(filters.limit, Len(p))
  /\ \A i \in 1..Len(p) :
       rankOf(p, i) <= filters.limit => rs[rankOf(p, i)] = p[i]

\* C15: in searchJobs with a clientProfile every returned result has
\* pass = true (none is hard-rejected or has matchScore < 70), the results
\* are in order of non-increasing matchScore, there are at most filters.limit
\* of them, and they are the first `limit` elements of the sorted passing
\* jobs.
C15_ResultsPassSortedLimited ==
  RespondedWithProfile => firstOfSortedPassing(response[1].results, passingJobs)

\* p is two passing jobs, the second with the higher score, and rs starts
\* with that one
betterOfTwo(rs, p) ==
  IF Len(p) = 2
  THEN p[1].matchScore[1] < p[2].matchScore[1] /\ rs[1] = p[2]
  ELSE FALSE

\* C15 witness: of three kept jobs one does not pass, the other two pass out
\* of score order, and the limit cuts the sorted list to the better one
C15_Witness ==
  /\ RespondedWithProfile
  /\ Len(jobs) = 3 /\ filters.limit = 1
  /\ response[1].count = 1
  /\ betterOfTwo(response[1].results, passingJobs)
=============================================================================
